---- MODULE Spec2Model ----
(***************************************************************************)
(* Model of the arity-checking analysis pass CallChecker of                *)
(* src/analysis/call_checker.rs.                                           *)
(*                                                                         *)
(* The program tree is given as the sequence of nodes in the order the     *)
(* traversal engine presents them to the four hooks (document order).      *)
(* A node is referred to by its index in that sequence, which stands for   *)
(* the borrowed reference &'a SymbolicExpression.                          *)
(***************************************************************************)
EXTENDS Integers, Sequences, FiniteSets, TLC

\* ---------------------------------------------------------------- bounds
MaxNodes == 3      \* nodes of a program
MaxParams == 1     \* parameters of a definition
MaxArgs == 2       \* arguments of a call
MaxRuns == 2       \* invocations of run_pass on the same program (SpecRerun)

Names == {"foo", "bar"}

DefineKinds == {"define-private", "define-public", "define-read-only"}

\* ------------------------------------------------------------ data types
\* Option<T>
None == [is_some |-> FALSE]
Some(v) == [is_some |-> TRUE, val |-> v]

\* Vec<TypedVar> of length n, and a slice of n argument expressions
TypedVars(n) == [k \in 1..n |-> "uint"]
Args(n) == [k \in 1..n |-> "u1"]

\* The source span of the node at position k: each node has its own extent.
SpanAt(k) == [start_line |-> k, start_column |-> 1, end_line |-> k, end_column |-> 9]

DefineShapes ==
  { [kind |-> kd, name |-> nm, parameters |-> ps] :
      kd \in DefineKinds, nm \in Names,
      ps \in {None} \cup { Some(TypedVars(n)) : n \in 0..MaxParams } }

CallShapes ==
  { [kind |-> "call", name |-> nm, args |-> Args(n)] : nm \in Names, n \in 0..MaxArgs }

NodeShapes == DefineShapes \cup CallShapes

\* The programs of len nodes.
Programs(len) == [1..len -> NodeShapes]

VARIABLES
  expressions,  \* contract_analysis.expressions, in visiting order
  phase,        \* "idle", "traversing", "reconciling", "done"
  pos,          \* the next node the traversal visits
  diagnostics,  \* CallChecker.diagnostics
  user_funcs,   \* CallChecker.user_funcs
  user_calls,   \* CallChecker.user_calls
  i,            \* loop variable of check_user_calls
  n,            \* upper end of the loop's range, taken at loop entry
  ret,          \* what the hooks called in this run returned, in order
  compared,     \* the calls whose counts were compared in this run, in order
  results       \* the AnalysisResult of every finished run

vars == <<expressions, phase, pos, diagnostics, user_funcs, user_calls, i, n,
          ret, compared, results>>

\* ------------------------------------------------------------- HashMap
EmptyMap == [k \in {} |-> 0]
contains_key(map, k) == k \in DOMAIN map
get(map, k) == IF contains_key(map, k) THEN Some(map[k]) ELSE None
\* An insert that keeps the entry a key already has (as entry().or_insert).
insert_keep_first(map, k, v) ==
  [x \in DOMAIN map \cup {k} |-> IF x \in DOMAIN map THEN map[x] ELSE v]
\* An insert that forgets every other key.
insert_alone(map, k, v) == [x \in {k} |-> v]
insert(map, k, v) == [x \in DOMAIN map \cup {k} |-> IF x = k THEN v ELSE map[x]]

\* ------------------------------------------------------------- results
Ok(v) == [tag |-> "Ok", diagnostics |-> v]
Err(v) == [tag |-> "Err", diagnostics |-> v]

\* ------------------------------------------------------------ CallChecker
\* A constructor that keeps the diagnostics of the instance before it.
new_keeps_diagnostics ==
  [diagnostics |-> diagnostics, user_funcs |-> EmptyMap, user_calls |-> <<>>]

new == [diagnostics |-> <<>>, user_funcs |-> EmptyMap, user_calls |-> <<>>]

format_message(name, expected, got) ==
  "incorrect number of arguments in call to '" \o name \o "' (expected "
    \o ToString(expected) \o " got " \o ToString(got) \o ")"

\* A diagnostic whose message names the two counts in the wrong places.
generate_diagnostic_swapped(expr, name, expected, got) ==
  [ level |-> "Error",
    message |-> format_message(name, got, expected),
    spans |-> <<SpanAt(expr)>>,
    suggestion |-> None ]

generate_diagnostic(expr, name, expected, got) ==
  [ level |-> "Error",
    message |-> format_message(name, expected, got),
    spans |-> <<SpanAt(expr)>>,
    suggestion |-> None ]

num_params_of(parameters) ==
  IF parameters.is_some THEN Len(parameters.val) ELSE 0

Init ==
  /\ \E len \in 0..MaxNodes : expressions \in Programs(len)
  /\ phase = "idle"
  /\ pos = 1
  /\ diagnostics = <<>>
  /\ user_funcs = EmptyMap
  /\ user_calls = <<>>
  /\ i = 0
  /\ n = 0
  /\ ret = <<>>
  /\ compared = <<>>
  /\ results = <<>>

\* AnalysisPass::run_pass: a fresh CallChecker, then run begins its traversal.
run_pass_begin ==
  /\ diagnostics' = new.diagnostics
  /\ user_funcs' = new.user_funcs
  /\ user_calls' = new.user_calls
  /\ phase' = "traversing"
  /\ pos' = 1
  /\ i' = 0
  /\ n' = 0
  /\ ret' = <<>>
  /\ compared' = <<>>
  /\ UNCHANGED <<expressions, results>>

run_pass ==
  /\ phase = "idle"
  /\ run_pass_begin

\* run_pass invoked once more on the same program after it has returned.
run_pass_again ==
  /\ phase = "done"
  /\ Len(results) < MaxRuns
  /\ run_pass_begin

\* The three definition hooks.
visit_define_private(expr, name, parameters) ==
  /\ user_funcs' = insert(user_funcs, name, num_params_of(parameters))
  /\ ret' = Append(ret, TRUE)
  /\ UNCHANGED <<diagnostics, user_calls, compared>>

visit_define_public(expr, name, parameters) ==
  /\ user_funcs' = insert(user_funcs, name, num_params_of(parameters))
  /\ ret' = Append(ret, TRUE)
  /\ UNCHANGED <<diagnostics, user_calls, compared>>

\* A read-only hook that records nothing.
visit_define_read_only_unrecorded(expr, name, parameters) ==
  /\ ret' = Append(ret, TRUE)
  /\ UNCHANGED <<user_funcs, diagnostics, user_calls, compared>>

visit_define_read_only(expr, name, parameters) ==
  /\ user_funcs' = insert(user_funcs, name, num_params_of(parameters))
  /\ ret' = Append(ret, TRUE)
  /\ UNCHANGED <<diagnostics, user_calls, compared>>

\* A call hook that also defers the calls it has just checked.
visit_call_user_defined_always_defers(expr, name, args) ==
  /\ IF get(user_funcs, name).is_some
       THEN LET param_count == get(user_funcs, name).val IN
            /\ compared' = Append(compared, expr)
            /\ diagnostics' =
                 IF Len(args) # param_count
                   THEN Append(diagnostics,
                               generate_diagnostic(expr, name, param_count, Len(args)))
                   ELSE diagnostics
       ELSE UNCHANGED <<diagnostics, compared>>
  /\ user_calls' = Append(user_calls, <<name, expr, Len(args)>>)
  /\ ret' = Append(ret, TRUE)
  /\ UNCHANGED user_funcs

\* A call hook that takes the call's own count as the declaration of a name
\* it does not know yet.
visit_call_user_defined_records(expr, name, args) ==
  /\ IF get(user_funcs, name).is_some
       THEN LET param_count == get(user_funcs, name).val IN
            /\ compared' = Append(compared, expr)
            /\ diagnostics' =
                 IF Len(args) # param_count
                   THEN Append(diagnostics,
                               generate_diagnostic(expr, name, param_count, Len(args)))
                   ELSE diagnostics
            /\ UNCHANGED <<user_calls, user_funcs>>
       ELSE /\ user_calls' = Append(user_calls, <<name, expr, Len(args)>>)
            /\ user_funcs' = insert(user_funcs, name, Len(args))
            /\ UNCHANGED <<diagnostics, compared>>
  /\ ret' = Append(ret, TRUE)

\* A call hook that reports without comparing the counts.
visit_call_user_defined_uncompared(expr, name, args) ==
  /\ IF get(user_funcs, name).is_some
       THEN LET param_count == get(user_funcs, name).val IN
            /\ compared' = Append(compared, expr)
            /\ diagnostics' =
                 Append(diagnostics,
                        generate_diagnostic(expr, name, param_count, Len(args)))
            /\ UNCHANGED user_calls
       ELSE /\ user_calls' = Append(user_calls, <<name, expr, Len(args)>>)
            /\ UNCHANGED <<diagnostics, compared>>
  /\ ret' = Append(ret, TRUE)
  /\ UNCHANGED user_funcs

\* A call hook that defers every call to the reconciliation.
visit_call_user_defined_defers_all(expr, name, args) ==
  /\ user_calls' = Append(user_calls, <<name, expr, Len(args)>>)
  /\ ret' = Append(ret, TRUE)
  /\ UNCHANGED <<diagnostics, compared, user_funcs>>

\* The call hook.
visit_call_user_defined(expr, name, args) ==
  /\ IF get(user_funcs, name).is_some
       THEN LET param_count == get(user_funcs, name).val IN
            /\ compared' = Append(compared, expr)
            /\ diagnostics' =
                 IF Len(args) # param_count
                   THEN Append(diagnostics,
                               generate_diagnostic(expr, name, param_count, Len(args)))
                   ELSE diagnostics
            /\ UNCHANGED user_calls
       ELSE /\ user_calls' = Append(user_calls, <<name, expr, Len(args)>>)
            /\ UNCHANGED <<diagnostics, compared>>
  /\ ret' = Append(ret, TRUE)
  /\ UNCHANGED user_funcs

\* traverse: the engine presents the next node to the hook of its kind.
Visiting(kind) ==
  /\ phase = "traversing"
  /\ pos <= Len(expressions)
  /\ expressions[pos].kind = kind

TraverseDefinePrivate ==
  /\ Visiting("define-private")
  /\ visit_define_private(pos, expressions[pos].name, expressions[pos].parameters)
  /\ pos' = pos + 1
  /\ UNCHANGED <<expressions, phase, i, n, results>>

TraverseDefinePublic ==
  /\ Visiting("define-public")
  /\ visit_define_public(pos, expressions[pos].name, expressions[pos].parameters)
  /\ pos' = pos + 1
  /\ UNCHANGED <<expressions, phase, i, n, results>>

TraverseDefineReadOnly ==
  /\ Visiting("define-read-only")
  /\ visit_define_read_only(pos, expressions[pos].name, expressions[pos].parameters)
  /\ pos' = pos + 1
  /\ UNCHANGED <<expressions, phase, i, n, results>>

TraverseCall ==
  /\ Visiting("call")
  /\ visit_call_user_defined(pos, expressions[pos].name, expressions[pos].args)
  /\ pos' = pos + 1
  /\ UNCHANGED <<expressions, phase, i, n, results>>

\* A reconciliation that starts one node early.
check_user_calls_early ==
  /\ phase = "traversing"
  /\ pos >= Len(expressions)
  /\ phase' = "reconciling"
  /\ i' = 0
  /\ n' = Len(user_calls)
  /\ UNCHANGED <<expressions, pos, diagnostics, user_funcs, user_calls, ret,
                 compared, results>>

\* run: traverse has returned, check_user_calls enters its loop over
\* 0..self.user_calls.len().
check_user_calls ==
  /\ phase = "traversing"
  /\ pos > Len(expressions)
  /\ phase' = "reconciling"
  /\ i' = 0
  /\ n' = Len(user_calls)
  /\ UNCHANGED <<expressions, pos, diagnostics, user_funcs, user_calls, ret,
                 compared, results>>

\* A reconciliation that gives up reporting once a diagnostic exists.
check_user_calls_body_first_only(name, call_expr, num_args) ==
  IF get(user_funcs, name).is_some
    THEN LET num_params == get(user_funcs, name).val IN
         /\ compared' = Append(compared, call_expr)
         /\ diagnostics' =
              IF num_args # num_params /\ diagnostics = <<>>
                THEN Append(diagnostics,
                            generate_diagnostic(call_expr, name, num_params, num_args))
                ELSE diagnostics
    ELSE UNCHANGED <<diagnostics, compared>>

\* A reconciliation that reads a name without entry as declared with no
\* parameters.
check_user_calls_body_undefined_is_zero(name, call_expr, num_args) ==
  LET num_params == IF get(user_funcs, name).is_some
                      THEN get(user_funcs, name).val ELSE 0 IN
  /\ compared' = Append(compared, call_expr)
  /\ diagnostics' =
       IF num_args # num_params
         THEN Append(diagnostics,
                     generate_diagnostic(call_expr, name, num_params, num_args))
         ELSE diagnostics

\* A reconciliation that hands the two counts over in the wrong order.
check_user_calls_body_swapped(name, call_expr, num_args) ==
  IF get(user_funcs, name).is_some
    THEN LET num_params == get(user_funcs, name).val IN
         /\ compared' = Append(compared, call_expr)
         /\ diagnostics' =
              IF num_args # num_params
                THEN Append(diagnostics,
                            generate_diagnostic(call_expr, name, num_args, num_params))
                ELSE diagnostics
    ELSE UNCHANGED <<diagnostics, compared>>

\* A reconciliation that puts its diagnostic in front of the list.
check_user_calls_body_prepend(name, call_expr, num_args) ==
  IF get(user_funcs, name).is_some
    THEN LET num_params == get(user_funcs, name).val IN
         /\ compared' = Append(compared, call_expr)
         /\ diagnostics' =
              IF num_args # num_params
                THEN <<generate_diagnostic(call_expr, name, num_params, num_args)>>
                       \o diagnostics
                ELSE diagnostics
    ELSE UNCHANGED <<diagnostics, compared>>

\* One iteration of the loop of check_user_calls (i counts from 0).
check_user_calls_body(name, call_expr, num_args) ==
  IF get(user_funcs, name).is_some
    THEN LET num_params == get(user_funcs, name).val IN
         /\ compared' = Append(compared, call_expr)
         /\ diagnostics' =
              IF num_args # num_params
                THEN Append(diagnostics,
                            generate_diagnostic(call_expr, name, num_params, num_args))
                ELSE diagnostics
    ELSE UNCHANGED <<diagnostics, compared>>

\* A loop that walks the pending calls from the last to the first.
check_user_calls_iter_reversed ==
  /\ phase = "reconciling"
  /\ i < n
  /\ check_user_calls_body(user_calls[n - i][1], user_calls[n - i][2], user_calls[n - i][3])
  /\ i' = i + 1
  /\ UNCHANGED <<expressions, phase, pos, user_funcs, user_calls, n, ret, results>>

check_user_calls_iter ==
  /\ phase = "reconciling"
  /\ i < n
  /\ check_user_calls_body(user_calls[i + 1][1], user_calls[i + 1][2], user_calls[i + 1][3])
  /\ i' = i + 1
  /\ UNCHANGED <<expressions, phase, pos, user_funcs, user_calls, n, ret, results>>

\* A result that lets a single diagnostic pass as success.
run_result_off_by_one(diags) ==
  IF Len(diags) > 1 THEN Err(diags) ELSE Ok(<<>>)

\* run: the loop is over, the result is built from the diagnostics.
run_result(diags) ==
  IF Len(diags) > 0 THEN Err(diags) ELSE Ok(<<>>)

\* A return that waits for the loop variable to pass the end of the range.
run_return_strict ==
  /\ phase = "reconciling"
  /\ i > n
  /\ results' = Append(results, run_result(diagnostics))
  /\ phase' = "done"
  /\ UNCHANGED <<expressions, pos, diagnostics, user_funcs, user_calls, i, n,
                 ret, compared>>

run_return ==
  /\ phase = "reconciling"
  /\ i >= n
  /\ results' = Append(results, run_result(diagnostics))
  /\ phase' = "done"
  /\ UNCHANGED <<expressions, pos, diagnostics, user_funcs, user_calls, i, n,
                 ret, compared>>

Next ==
  \/ run_pass
  \/ TraverseDefinePrivate
  \/ TraverseDefinePublic
  \/ TraverseDefineReadOnly
  \/ TraverseCall
  \/ check_user_calls
  \/ check_user_calls_iter
  \/ run_return

Spec == Init /\ [][Next]_vars

\* run is synchronous and runs to completion: a step that can be taken is taken.
SpecFair == Spec /\ WF_vars(Next)

\* The pass run repeatedly on the same program.
NextRerun ==
  \/ Next
  \/ run_pass_again

SpecRerun == Init /\ [][NextRerun]_vars

TypeOK ==
  /\ phase \in {"idle", "traversing", "reconciling", "done"}
  /\ pos \in 1..(Len(expressions) + 1)
  /\ i \in 0..n
  /\ Len(results) <= MaxRuns

\* ------------------------------------------------ the program, as written
\* What the properties below say about a program is read off the program
\* text alone, never off the checker's own tables.
Nodes == 1..Len(expressions)
IsCall(p) == expressions[p].kind = "call"
IsDefine(p) == expressions[p].kind \in DefineKinds
CallSites == { p \in Nodes : IsCall(p) }
DefsOf(name) == { d \in Nodes : IsDefine(d) /\ expressions[d].name = name }
DefsBefore(p) == { d \in DefsOf(expressions[p].name) : d < p }
Latest(S) == CHOOSE x \in S : \A y \in S : y <= x
ArgCount(p) == Len(expressions[p].args)
DeclaredCount(d) ==
  IF expressions[d].parameters = None THEN 0 ELSE Len(expressions[d].parameters.val)
UniqueDefs == \A name \in Names : Cardinality(DefsOf(name)) <= 1
Defined(p) == DefsOf(expressions[p].name) # {}
\* The parameter count of the last definition of the call's target.
LastDeclared(p) == DeclaredCount(Latest(DefsOf(expressions[p].name)))
\* The call is visited after some definition of its target.
DefinedBefore(p) == DefsBefore(p) # {}
\* The definition a call is held against: the latest one visited before the
\* call, or the last one of the program when none was.
JudgedCount(p) ==
  IF DefinedBefore(p) THEN DeclaredCount(Latest(DefsBefore(p))) ELSE LastDeclared(p)
Mismatched(p) == Defined(p) /\ ArgCount(p) # JudgedCount(p)

Done == phase = "done"
Outcome == results[Len(results)]
\* The diagnostics of a list that point at the call site p.
DiagsAt(list, p) == { k \in 1..Len(list) : list[k].spans = <<SpanAt(p)>> }

\* C1: with each name defined at most once, a finished run holds exactly one
\* diagnostic for each call whose target is defined with another count, and
\* none for any other call, whichever of the two was visited first.
C1_OneDiagnosticPerMismatch ==
  (Done /\ UniqueDefs) =>
    /\ \A p \in CallSites :
         Cardinality(DiagsAt(Outcome.diagnostics, p)) =
           IF Defined(p) /\ ArgCount(p) # LastDeclared(p) THEN 1 ELSE 0
    /\ \A k \in 1..Len(Outcome.diagnostics) :
         \E p \in CallSites : k \in DiagsAt(Outcome.diagnostics, p)

C1_Witness ==
  /\ Done /\ UniqueDefs
  /\ Len(Outcome.diagnostics) = 2
  /\ \E p, q \in CallSites :
       /\ Defined(p) /\ DefinedBefore(p) /\ ArgCount(p) # LastDeclared(p)
       /\ Defined(q) /\ ~DefinedBefore(q) /\ ArgCount(q) # LastDeclared(q)

\* C2: the outcome is a failure exactly when some call was found mismatched;
\* a failure carries a non-empty list and a success an empty list.
C2_FailureIffMismatch ==
  Done =>
    /\ Outcome.tag \in {"Ok", "Err"}
    /\ (Outcome.tag = "Err") <=> (\E p \in CallSites : Mismatched(p))
    /\ (Outcome.tag = "Err") => Len(Outcome.diagnostics) > 0
    /\ (Outcome.tag = "Ok") => Outcome.diagnostics = <<>>

C2_Witness ==
  /\ Done
  /\ Outcome.tag = "Err"
  /\ Len(Outcome.diagnostics) = 1
  /\ \E p \in CallSites : Mismatched(p) /\ ~DefinedBefore(p)

\* C3 as stated: when every call supplies as many arguments as the last
\* definition of its target declares, the outcome is success with no
\* diagnostics, also when a name is defined more than once.
C3_LastDefinitionWins ==
  (Done /\ \A p \in CallSites : Defined(p) => ArgCount(p) = LastDeclared(p))
    => Outcome = Ok(<<>>)

\* C3, amended: when every call supplies as many arguments as the definition
\* it is held against declares (the latest definition of its target visited
\* before the call, or the last one of the program when the call is visited
\* before all of them), the outcome is success with no diagnostics.
C3_JudgedDefinitionWins ==
  (Done /\ \A p \in CallSites : Defined(p) => ArgCount(p) = JudgedCount(p))
    => Outcome = Ok(<<>>)

C3_Witness ==
  /\ Done
  /\ Outcome = Ok(<<>>)
  /\ \E p \in CallSites :
       /\ DefinedBefore(p)
       /\ JudgedCount(p) # LastDeclared(p)
       /\ ArgCount(p) = JudgedCount(p)

\* C4: a call with a mismatched count gets a diagnostic whether it is visited
\* before or after the one definition of its target, and a call visited
\* before and a call visited after, with the same name and counts, get the
\* same message text.
C4_OrderIndependence ==
  Done =>
    \A p, q \in CallSites :
      ( /\ expressions[p].name = expressions[q].name
        /\ Cardinality(DefsOf(expressions[p].name)) = 1
        /\ ArgCount(p) = ArgCount(q)
        /\ ArgCount(p) # LastDeclared(p)
        /\ ~DefinedBefore(p) /\ DefinedBefore(q) )
      => /\ DiagsAt(Outcome.diagnostics, p) # {}
         /\ DiagsAt(Outcome.diagnostics, q) # {}
         /\ \A a \in DiagsAt(Outcome.diagnostics, p), b \in DiagsAt(Outcome.diagnostics, q) :
              Outcome.diagnostics[a].message = Outcome.diagnostics[b].message

C4_Witness ==
  /\ Done
  /\ Len(Outcome.diagnostics) = 2
  /\ Outcome.diagnostics[1].message = Outcome.diagnostics[2].message
  /\ Outcome.diagnostics[1].spans # Outcome.diagnostics[2].spans
  /\ \E p, q \in CallSites :
       /\ expressions[p].name = expressions[q].name
       /\ Cardinality(DefsOf(expressions[p].name)) = 1
       /\ ArgCount(p) = ArgCount(q) /\ ArgCount(p) # LastDeclared(p)
       /\ ~DefinedBefore(p) /\ DefinedBefore(q)

\* C5: a call to a name no node of the program defines is deferred when
\* visited, is never compared, and gets no diagnostic; a program whose only
\* calls are such calls ends in success.
NeverDefined(p) == IsCall(p) /\ ~Defined(p)
DeferredExprs == { user_calls[k][2] : k \in 1..Len(user_calls) }

C5_UndefinedSkipped ==
  /\ \A k \in 1..Len(diagnostics) :
       \A p \in Nodes : diagnostics[k].spans[1] = SpanAt(p) => ~NeverDefined(p)
  /\ \A k \in 1..Len(compared) : ~NeverDefined(compared[k])
  /\ phase \in {"reconciling", "done"} =>
       \A p \in CallSites : NeverDefined(p) => p \in DeferredExprs
  /\ Done =>
       /\ \A p \in CallSites : NeverDefined(p) => DiagsAt(Outcome.diagnostics, p) = {}
       /\ (\A p \in CallSites : NeverDefined(p)) => Outcome = Ok(<<>>)

C5_Witness ==
  /\ Done
  /\ Outcome = Ok(<<>>)
  /\ i = 2
  /\ \E p, q \in CallSites : p # q /\ NeverDefined(p) /\ NeverDefined(q) /\ ArgCount(p) # ArgCount(q)
  /\ \E d \in Nodes : IsDefine(d)

\* The message text, written out from the wording of the format string.
Digits == <<"0", "1", "2", "3", "4", "5", "6", "7", "8", "9">>
MessageText(name, expected, got) ==
  "incorrect number of arguments in call to '" \o name \o "' (expected "
    \o Digits[expected + 1] \o " got " \o Digits[got + 1] \o ")"

\* The diagnostic d is the one due for the call site p.
DiagnosticOf(d, p) ==
  LET name == expressions[p].name
      expected == JudgedCount(p)
      got == ArgCount(p)
  IN  /\ IsCall(p)
      /\ Defined(p)
      /\ got # expected
      /\ d.level = "Error"
      /\ d.suggestion = None
      /\ d.message = MessageText(name, expected, got)
      /\ (name = "foo" /\ expected = 1 /\ got = 2)
           => d.message = "incorrect number of arguments in call to 'foo' (expected 1 got 2)"
      /\ (name = "foo" /\ expected = 1 /\ got = 0)
           => d.message = "incorrect number of arguments in call to 'foo' (expected 1 got 0)"

WellFormedDiagnostic(d) ==
  /\ Len(d.spans) = 1
  /\ \E p \in Nodes : d.spans[1] = SpanAt(p) /\ DiagnosticOf(d, p)

\* C6: every diagnostic, of the immediate check and of the deferred check,
\* has error severity, no suggestion, the span of its call as its only span,
\* and the message built from the call's name, the recorded parameter count
\* as expected and the call's argument count as got.
C6_DiagnosticShape ==
  /\ \A k \in 1..Len(diagnostics) : WellFormedDiagnostic(diagnostics[k])
  /\ \A r \in 1..Len(results) :
       \A k \in 1..Len(results[r].diagnostics) :
         WellFormedDiagnostic(results[r].diagnostics[k])

C6_Witness ==
  /\ Done
  /\ Len(Outcome.diagnostics) = 2
  /\ \E p, q \in CallSites :
       /\ expressions[p].name = "foo" /\ DefinedBefore(p)
       /\ JudgedCount(p) = 1 /\ ArgCount(p) = 2
       /\ Outcome.diagnostics[1].spans = <<SpanAt(p)>>
       /\ Outcome.diagnostics[1].message =
            "incorrect number of arguments in call to 'foo' (expected 1 got 2)"
       /\ ~DefinedBefore(q)
       /\ Outcome.diagnostics[2].spans = <<SpanAt(q)>>

\* The call sites of the program, in visiting order, that satisfy Keep.
NodeSeq == [k \in Nodes |-> k]
ImmediateMismatches == SelectSeq(NodeSeq, LAMBDA p : IsCall(p) /\ DefinedBefore(p) /\ Mismatched(p))
DeferredMismatches == SelectSeq(NodeSeq, LAMBDA p : IsCall(p) /\ ~DefinedBefore(p) /\ Mismatched(p))
SpansOf(list) == [k \in 1..Len(list) |-> list[k].spans]
SpansAt(ps) == [k \in 1..Len(ps) |-> <<SpanAt(ps[k])>>]

\* C7: the list a run returns holds the diagnostics of the immediate checks
\* in visiting order, followed by those of the deferred checks in deferral
\* order.
C7_GenerationOrder ==
  Done =>
    SpansOf(Outcome.diagnostics) = SpansAt(ImmediateMismatches \o DeferredMismatches)

C7_Witness ==
  /\ Done
  /\ Len(ImmediateMismatches) = 1
  /\ Len(DeferredMismatches) = 1
  /\ DeferredMismatches[1] < ImmediateMismatches[1]
  /\ Outcome.diagnostics[1].spans = <<SpanAt(ImmediateMismatches[1])>>
  /\ Outcome.diagnostics[2].spans = <<SpanAt(DeferredMismatches[1])>>

\* What a run must return, read off the program alone; of a definition it
\* reads the name and the parameter list, never which of the three kinds of
\* definition it is.
ExpectedDiagnostic(p) ==
  [ level |-> "Error",
    message |-> MessageText(expressions[p].name, JudgedCount(p), ArgCount(p)),
    spans |-> <<SpanAt(p)>>,
    suggestion |-> None ]
ExpectedList ==
  LET ps == ImmediateMismatches \o DeferredMismatches
  IN  [k \in 1..Len(ps) |-> ExpectedDiagnostic(ps[k])]
ExpectedOutcome ==
  IF Len(ExpectedList) = 0 THEN Ok(<<>>) ELSE Err(ExpectedList)

DefineVisit ==
  /\ phase = "traversing" /\ pos \in Nodes /\ IsDefine(pos)
  /\ pos' = pos + 1
DefineEffect ==
  /\ DOMAIN user_funcs' = DOMAIN user_funcs \cup {expressions[pos].name}
  /\ user_funcs'[expressions[pos].name] = DeclaredCount(pos)
  /\ \A nm \in DOMAIN user_funcs :
       nm # expressions[pos].name => user_funcs'[nm] = user_funcs[nm]
  /\ ret' = Append(ret, TRUE)
  /\ diagnostics' = diagnostics
  /\ user_calls' = user_calls

\* C8: whichever of the three kinds a definition is, visiting it records its
\* name with the length of its parameter list (0 when there is none) over
\* any earlier entry, returns true and leaves the diagnostics and the
\* pending calls alone; and the outcome of a run is the one read off the
\* program without regard to the kinds of its definitions.
C8_DefineHooksInterchangeable ==
  /\ [][DefineVisit => DefineEffect]_vars
  /\ [](Done => Outcome = ExpectedOutcome)

C8_Witness ==
  /\ Done
  /\ Outcome.tag = "Err"
  /\ ret = <<TRUE, TRUE, TRUE>>
  /\ \E d, e \in Nodes, p \in CallSites :
       /\ d < e /\ e < p
       /\ expressions[d].kind = "define-read-only"
       /\ expressions[e].kind = "define-public"
       /\ expressions[d].name = expressions[e].name
       /\ expressions[p].name = expressions[e].name
       /\ expressions[d].parameters # None
       /\ expressions[e].parameters = None
       /\ ArgCount(p) = DeclaredCount(d)
       /\ user_funcs[expressions[e].name] = 0

\* C9: every run of the pass on the same program returns the same result,
\* and every run starts with an empty table, an empty pending list and no
\* diagnostics.
C9_Idempotent ==
  /\ \A a, b \in 1..Len(results) : results[a] = results[b]
  /\ (phase = "traversing" /\ pos = 1) =>
       /\ diagnostics = <<>>
       /\ DOMAIN user_funcs = {}
       /\ user_calls = <<>>

C9_Witness ==
  /\ Done
  /\ Len(results) = 2
  /\ results[1].tag = "Err"
  /\ Len(results[1].diagnostics) = 2
  /\ results[2] = results[1]
  /\ Len(user_calls) = 1

Occurrences(seq, x) == Cardinality({ k \in 1..Len(seq) : seq[k] = x })
StartOfRun == phase \in {"idle", "done"} /\ phase' = "traversing"

\* C10: a call's count is compared with the table at most once in a run, when
\* visited or in reconciliation and never in both; a finished run has
\* compared each call with a defined target exactly once, has read each
\* pending record once, in order and without changing it, and no call site
\* has more than one diagnostic.
C10_CheckedAtMostOnce ==
  /\ [] /\ \A p \in CallSites :
            /\ Occurrences(compared, p) <= 1
            /\ Cardinality({ k \in 1..Len(user_calls) : user_calls[k][2] = p }) <= 1
            /\ Cardinality(DiagsAt(diagnostics, p)) <= 1
            /\ (phase = "traversing" /\ Occurrences(compared, p) = 1)
                  => p \notin DeferredExprs
        /\ Done =>
            /\ i = Len(user_calls)
            /\ \A p \in CallSites :
                 Occurrences(compared, p) = IF Defined(p) THEN 1 ELSE 0
  /\ [][ /\ ~StartOfRun =>
            /\ Len(user_calls') >= Len(user_calls)
            /\ SubSeq(user_calls', 1, Len(user_calls)) = user_calls
        /\ (phase = "reconciling" /\ phase' = "reconciling") =>
            /\ user_calls' = user_calls
            /\ i' = i + 1
            /\ i < Len(user_calls) ]_vars

C10_Witness ==
  /\ Done
  /\ Len(user_calls) = 1
  /\ i = 1
  /\ \E p, q \in CallSites :
       /\ DefinedBefore(p) /\ ~DefinedBefore(q) /\ Defined(q)
       /\ compared = <<p, q>>
       /\ user_calls[1][2] = q

CallVisit ==
  /\ phase = "traversing" /\ pos \in Nodes /\ IsCall(pos)
  /\ pos' = pos + 1
CallEffect ==
  LET name == expressions[pos].name
      got == ArgCount(pos)
  IN  /\ ret' = Append(ret, TRUE)
      /\ user_funcs' = user_funcs
      /\ IF name \in DOMAIN user_funcs
           THEN /\ user_calls' = user_calls
                /\ IF got # user_funcs[name]
                     THEN /\ Len(diagnostics') = Len(diagnostics) + 1
                          /\ SubSeq(diagnostics', 1, Len(diagnostics)) = diagnostics
                          /\ diagnostics'[Len(diagnostics')].spans = <<SpanAt(pos)>>
                          /\ diagnostics'[Len(diagnostics')].message =
                               MessageText(name, user_funcs[name], got)
                     ELSE diagnostics' = diagnostics
           ELSE /\ user_calls' = Append(user_calls, <<name, pos, got>>)
                /\ diagnostics' = diagnostics

\* C11: the call hook returns true and either, the name having an entry,
\* compares the counts, pushes one diagnostic on mismatch and none on match
\* and leaves the pending list alone, or, the name having no entry, appends
\* one record (name, call, argument count) to the end of the pending list
\* and pushes no diagnostic; the table is unchanged in both cases.
C11_CallHookEffect == [][CallVisit => CallEffect]_vars

C11_Witness ==
  /\ phase = "traversing"
  /\ pos = 4
  /\ IsCall(1) /\ IsCall(3)
  /\ ret = <<TRUE, TRUE, TRUE>>
  /\ user_calls = <<<<expressions[1].name, 1, ArgCount(1)>>>>
  /\ Len(diagnostics) = 1
  /\ diagnostics[1].spans = <<SpanAt(3)>>

\* The table is the one the whole program leaves behind.
CompleteTable ==
  \A name \in Names :
    /\ (name \in DOMAIN user_funcs) <=> (DefsOf(name) # {})
    /\ (DefsOf(name) # {}) => user_funcs[name] = DeclaredCount(Latest(DefsOf(name)))
Increasing(seq) == \A a, b \in 1..Len(seq) : a < b => seq[a] < seq[b]
ReconcileStep == phase = "reconciling" /\ phase' = "reconciling"
ReconcileEffect ==
  LET record == user_calls[i + 1]
      p == record[2]
  IN  /\ i' = i + 1
      /\ record = <<expressions[p].name, p, ArgCount(p)>>
      /\ IF ~Defined(p)
           THEN diagnostics' = diagnostics /\ compared' = compared
           ELSE /\ compared' = Append(compared, p)
                /\ IF ArgCount(p) = LastDeclared(p)
                     THEN diagnostics' = diagnostics
                     ELSE diagnostics' =
                            Append(diagnostics,
                                   [ level |-> "Error",
                                     message |-> MessageText(expressions[p].name,
                                                             LastDeclared(p), ArgCount(p)),
                                     spans |-> <<SpanAt(p)>>,
                                     suggestion |-> None ])

\* C12: reconciliation goes through the pending list once, in the order the
\* calls were deferred, and holds each against the table as the whole
\* traversal left it (the last definition of the name): no entry, no
\* diagnostic; equal counts, no diagnostic; differing counts, one diagnostic.
C12_Reconciliation ==
  /\ [](phase = "reconciling" =>
          /\ CompleteTable
          /\ Increasing([k \in 1..Len(user_calls) |-> user_calls[k][2]])
          /\ i <= Len(user_calls))
  /\ [][ReconcileStep => ReconcileEffect]_vars

C12_Witness ==
  /\ Done
  /\ i = 2
  /\ Len(user_calls) = 2
  /\ NeverDefined(user_calls[1][2])
  /\ Defined(user_calls[2][2])
  /\ Len(diagnostics) = 1
  /\ diagnostics[1].spans = <<SpanAt(user_calls[2][2])>>

\* C13: a run goes from traversing to reconciling to its result and never
\* back: hooks fire only while traversing, reconciliation starts only when
\* every node has been visited, and the result is produced only when the
\* loop over the pending list is over.
C13_PhaseOrder ==
  [][ /\ phase = "idle" => phase' = "traversing"
      /\ phase = "traversing" =>
           \/ phase' = "traversing" /\ pos \in Nodes /\ pos' = pos + 1
                /\ Len(ret') = Len(ret) + 1 /\ results' = results
           \/ phase' = "reconciling" /\ pos = Len(expressions) + 1
                /\ Len(ret) = Len(expressions)
                /\ UNCHANGED <<pos, ret, user_funcs, user_calls, diagnostics, results>>
      /\ phase = "reconciling" =>
           /\ UNCHANGED <<pos, ret, user_funcs, user_calls>>
           /\ \/ phase' = "reconciling" /\ i < Len(user_calls) /\ results' = results
              \/ phase' = "done" /\ i = Len(user_calls)
                   /\ Len(results') = Len(results) + 1
                   /\ SubSeq(results', 1, Len(results)) = results
      /\ phase = "done" => UNCHANGED vars ]_vars

C13_Witness ==
  /\ Done
  /\ Len(results) = 1
  /\ Len(ret) = 3
  /\ i = 1
  /\ Len(user_calls) = 1
  /\ IsDefine(3)

\* C14: every run ends with a result; the traversal visits each node once
\* and reconciliation makes as many iterations as the pending list has
\* records at the end of the traversal, a list that does not grow meanwhile.
C14_Terminates ==
  /\ <>Done
  /\ [](Done => /\ Len(results) = 1
                /\ Len(ret) = Len(expressions)
                /\ pos = Len(expressions) + 1
                /\ i = n
                /\ n = Len(user_calls))
  /\ [][phase = "reconciling" => (user_calls' = user_calls /\ n' = n /\ i' <= n)]_vars

C14_Witness ==
  /\ Done
  /\ Len(expressions) = 3
  /\ Len(ret) = 3
  /\ n = 2
  /\ i = 2

\* The definitions of a name the traversal has visited so far.
VisitedDefs(name) == { d \in DefsOf(name) : d < pos }
VisitedCalls == { p \in CallSites : p < pos }

\* C15: an entry of the table, once made, stays in every later state of the
\* run, and a lookup of a name returns the parameter count of the most
\* recently visited definition of that name.
C15_TableGrows ==
  /\ [](\A name \in Names :
          /\ (name \in DOMAIN user_funcs) <=> (VisitedDefs(name) # {})
          /\ get(user_funcs, name) =
               IF VisitedDefs(name) = {} THEN None
               ELSE Some(DeclaredCount(Latest(VisitedDefs(name)))))
  /\ [][DOMAIN user_funcs \subseteq DOMAIN user_funcs']_vars

C15_Witness ==
  /\ phase = "traversing"
  /\ pos = 4
  /\ DOMAIN user_funcs = {"foo", "bar"}
  /\ Cardinality(DefsOf("foo")) = 2
  /\ DeclaredCount(1) # DeclaredCount(3)
  /\ expressions[3].name = "foo"
  /\ user_funcs["foo"] = DeclaredCount(3)

IsPrefix(a, b) == Len(a) <= Len(b) /\ SubSeq(b, 1, Len(a)) = a

\* C16: reconciliation only appends to the diagnostics; it leaves the table
\* and the pending list unchanged and never alters or reorders the
\* diagnostics of the traversal.
C16_ReconciliationFrame ==
  [][phase = "reconciling" =>
       /\ user_funcs' = user_funcs
       /\ user_calls' = user_calls
       /\ IsPrefix(diagnostics, diagnostics')
       /\ Len(diagnostics') <= Len(diagnostics) + 1]_vars

C16_Witness ==
  /\ phase = "reconciling"
  /\ i = 1 /\ n = 1
  /\ Len(user_calls) = 1
  /\ Len(diagnostics) = 2
  /\ diagnostics[2].spans = <<SpanAt(user_calls[1][2])>>
  /\ DOMAIN user_funcs # {}

\* C17: every diagnostic names an expected count other than the count it
\* got, and the diagnostics together with the visited calls that have none
\* are never more than the calls visited so far.
C17_DiagnosticsBounded ==
  /\ \A k \in 1..Len(diagnostics) :
       \E p \in VisitedCalls, expected \in 0..9 :
         /\ diagnostics[k].spans = <<SpanAt(p)>>
         /\ expected # ArgCount(p)
         /\ diagnostics[k].message =
              MessageText(expressions[p].name, expected, ArgCount(p))
  /\ Len(diagnostics)
       + Cardinality({ p \in VisitedCalls : DiagsAt(diagnostics, p) = {} })
         <= Cardinality(VisitedCalls)

C17_Witness ==
  /\ Done
  /\ Cardinality(VisitedCalls) = 2
  /\ Len(diagnostics) = 1
  /\ \A p \in VisitedCalls : Defined(p) /\ DefinedBefore(p)

\* C18: a call visited when its target has an entry is held against the
\* latest definition of the name visited before it, for good: a later
\* definition of the name with another count neither adds nor removes a
\* diagnostic for it; a call visited before every definition of its target
\* is held against the last definition of the program.
C18_VerdictFinal ==
  /\ \A p \in VisitedCalls :
       DefinedBefore(p) =>
         Cardinality(DiagsAt(diagnostics, p)) =
           IF ArgCount(p) # DeclaredCount(Latest(DefsBefore(p))) THEN 1 ELSE 0
  /\ phase = "traversing" =>
       \A p \in VisitedCalls : ~DefinedBefore(p) => DiagsAt(diagnostics, p) = {}
  /\ Done =>
       \A p \in CallSites :
         Cardinality(DiagsAt(Outcome.diagnostics, p)) =
           IF DefinedBefore(p)
             THEN IF ArgCount(p) # DeclaredCount(Latest(DefsBefore(p))) THEN 1 ELSE 0
             ELSE IF Defined(p) /\ ArgCount(p) # LastDeclared(p) THEN 1 ELSE 0

C18_Witness ==
  /\ Done
  /\ \E p \in CallSites :
       /\ DefinedBefore(p)
       /\ DeclaredCount(Latest(DefsBefore(p))) # LastDeclared(p)
       /\ ArgCount(p) = LastDeclared(p)
       /\ DiagsAt(Outcome.diagnostics, p) # {}
====
